---------------------------- MODULE Spec2Model ----------------------------
(***************************************************************************)
(* hipool: a generic asynchronous resource pool (src/src/Pool.ts) built on *)
(* a fixed-capacity circular queue (src/src/CircularQueue.ts) and a        *)
(* resource handle with one-shot status listeners (PoolResource).          *)
(*                                                                         *)
(* The pool runs on one JavaScript thread.  Every action below is one      *)
(* synchronous run of the code: from a public call, a timer, a nextTick    *)
(* callback or the continuation of an await, up to the next await or the   *)
(* return.                                                                 *)
(***************************************************************************)
EXTENDS Integers, Sequences, FiniteSets, TLC

\* ----------------------------------------------------------------- bounds
\* largest maxSize option explored
MaxPoolSize == 2
\* largest maxWaitingClients option explored
MaxWaiting == 2
\* number of factory.create() invocations explored
MaxCreate == 3
\* number of acquire() calls explored
MaxAcquire == 3
\* number of release() calls of a resource the caller no longer holds
MaxMisuse == 1
\* largest capacity of a CircularQueue exercised on its own
MaxCapacity == 3
\* number of distinct elements stored in a CircularQueue exercised on its own
MaxElement == 3

\* acquireTimeoutMillis options explored: one that differs from the default
AcquireTimeouts == {30}

Res == 1..MaxCreate
Acq == 1..MaxAcquire

\* ------------------------------------------------------------ PoolStatus
NOT_STARTED == 0
STARTING == 1
STARTED == 2
STOPPING == 3
STOPPED == 4

\* PoolResourceStatus; NONE marks a handle the pool has not constructed yet
ResourceStatus == {"NONE", "NEW", "FAST_DISPATCH", "AVAILABLE", "LENT", "DESTROYED"}

\* ---------------------------------------------------------- CircularQueue
\* buffer slots hold resource identities; 0 is JavaScript's undefined
CircularQueue(capacity) ==
  [buffer |-> [i \in 0..(capacity - 1) |-> 0], startIdx |-> 0,
   postEndIdx |-> 0, capacity |-> capacity, size |-> 0]

getSize(q) == q.size

isFull(q) == q.size = q.capacity

isEmpty(q) == q.size = 0

\* the caller checks isFull first: a push on a full queue throws 'Buffer full'
push(q, e) ==
  [q EXCEPT !.buffer[q.postEndIdx] = e,
            !.postEndIdx = (q.postEndIdx + 1) % q.capacity,
            !.size = q.size + 1]

unshift(q, e) ==
  LET s == IF q.startIdx = 0 THEN q.capacity - 1 ELSE q.startIdx - 1
  IN [q EXCEPT !.startIdx = s, !.buffer[s] = e, !.size = q.size + 1]

\* mutant: pop steps the tail index back without wrapping around
popNoWrap(q) ==
  IF isEmpty(q) THEN [q |-> q, e |-> 0]
  ELSE LET pe == IF q.postEndIdx = 0 THEN 0 ELSE q.postEndIdx - 1
       IN [q |-> [q EXCEPT !.postEndIdx = pe, !.size = q.size - 1],
           e |-> q.buffer[pe]]

\* pop and shift give the queue afterwards (q) and the element returned (e)
pop(q) ==
  IF isEmpty(q) THEN [q |-> q, e |-> 0]
  ELSE LET pe == IF q.postEndIdx = 0 THEN q.capacity - 1 ELSE q.postEndIdx - 1
       IN [q |-> [q EXCEPT !.postEndIdx = pe, !.size = q.size - 1],
           e |-> q.buffer[pe]]

shift(q) ==
  IF isEmpty(q) THEN [q |-> q, e |-> 0]
  ELSE [q |-> [q EXCEPT !.startIdx = (q.startIdx + 1) % q.capacity,
                        !.size = q.size - 1],
        e |-> q.buffer[q.startIdx]]

\* the indices visited by
\*   for (let i = startIdx; i !== postEndIdx; i = i === lastIndex ? 0 : i + 1)
\* started at i
RECURSIVE loopFrom(_, _)
loopFrom(q, i) ==
  IF i = q.postEndIdx THEN <<>>
  ELSE <<i>> \o loopFrom(q, IF i = q.capacity - 1 THEN 0 ELSE i + 1)

loopIndices(q) == loopFrom(q, q.startIdx)

\* find/count/forEach take the predicate as the set S of elements satisfying it
find(q, S) ==
  IF isEmpty(q) THEN 0
  ELSE IF q.capacity = 1
       THEN (IF q.buffer[q.startIdx] \in S THEN q.buffer[q.startIdx] ELSE 0)
       ELSE LET idx == loopIndices(q)
                hits == {k \in 1..Len(idx) : q.buffer[idx[k]] \in S}
            IN IF hits = {} THEN 0
               ELSE q.buffer[idx[CHOOSE k \in hits : \A j \in hits : k <= j]]

count(q, S) ==
  IF isEmpty(q) THEN 0
  ELSE IF q.capacity = 1
       THEN (IF q.buffer[q.startIdx] \in S THEN 1 ELSE 0)
       ELSE LET idx == loopIndices(q)
            IN Cardinality({k \in 1..Len(idx) : q.buffer[idx[k]] \in S})

\* the elements forEach calls its function with, in order
forEach(q) ==
  IF isEmpty(q) THEN <<>>
  ELSE IF q.capacity = 1 THEN <<q.buffer[q.startIdx]>>
       ELSE LET idx == loopIndices(q)
            IN [k \in 1..Len(idx) |-> q.buffer[idx[k]]]

\* fastRemove gives the queue afterwards (q) and whether it returned true (found)
fastRemove(q, element) ==
  IF isEmpty(q) THEN [q |-> q, found |-> FALSE]
  ELSE LET idx == loopIndices(q)
           hits == {k \in 1..Len(idx) : q.buffer[idx[k]] = element}
       IN IF hits = {} THEN [q |-> q, found |-> FALSE]
          ELSE LET i == idx[CHOOSE k \in hits : \A j \in hits : k <= j]
               IN IF i = q.startIdx THEN [q |-> shift(q).q, found |-> TRUE]
                  ELSE IF i = q.postEndIdx - 1
                       THEN [q |-> pop(q).q, found |-> TRUE]
                       ELSE LET pp == pop(q)
                            IN [q |-> [pp.q EXCEPT !.buffer[i] = pp.e],
                                found |-> TRUE]


\* ------------------------------------------------------------------ state
VARIABLES
  options,              \* Pool.poolOptions
  status,               \* Pool.status
  allResources,         \* Pool.allResources
  availableResources,   \* Pool.availableResources
  unfulfilledRequests,  \* Pool.unfulfilledRequests: acquire() calls, oldest first
  created,              \* Pool.resourceId - 1: handles constructed so far
  createCalls,          \* factory.create() invocations so far
  rstatus,              \* PoolResource.status of each handle
  listeners,            \* PoolResource.statusChangeListeners.length of each handle
  destroyCalls,         \* factory.destroy() invocations per resource
  acq,                  \* each acquire() call: its place, its request, its outcome
  ticks,                \* process.nextTick queue
  startPc,              \* where the start() call is
  bgCreating,           \* background checkMinSize() tasks awaiting factory.create()
  bgLoop,               \* background checkMinSize() tasks about to re-test the loop
  onceCreating,         \* acquire()'s createNewIfPossible() awaiting factory.create()
  relValidating,        \* release() calls awaiting factory.validate(), per resource
  holders,              \* callers holding each resource (acquired, not yet released)
  handed,               \* resources some caller has ever been given
  misuse,               \* release() calls of a resource the caller no longer held
  bufferFull,           \* creations that ended in 'Buffer full'
  moves,                \* the status changes setStatus applied in the latest run
  lastError,            \* the error the latest run of the code ended with, "" if none
  queue,                \* a CircularQueue exercised on its own
  reference,            \* the elements a double-ended queue holds after the same calls
  returned,             \* the latest call on queue and what it returned or threw
  expected              \* what that call gives on the double-ended queue

poolVars == <<options, status, allResources, availableResources,
              unfulfilledRequests, created, createCalls, rstatus, listeners,
              destroyCalls, acq, ticks, startPc, bgCreating, bgLoop,
              onceCreating, relValidating, holders, handed, misuse,
              bufferFull, moves, lastError>>

vars == <<options, status, allResources, availableResources, unfulfilledRequests,
          created, createCalls, rstatus, listeners, destroyCalls, acq, ticks,
          startPc, bgCreating, bgLoop, onceCreating, relValidating, holders,
          handed, misuse, bufferFull, moves, lastError,
          queue, reference, returned, expected>>

\* an acquire() call that has not been made yet
NoCall == [pc |-> "idle", res |-> 0, err |-> "", carried |-> 0, timeoutMs |-> 0,
           resolved |-> FALSE, timer |-> FALSE, settles |-> 0]

\* no call has been made on the queue exercised on its own
NoReturn == [op |-> "new", arg |-> {}, val |-> 0, seen |-> <<>>, err |-> ""]

\* PoolOptions: DEFAULT_POOL_OPTIONS overridden by the caller's options
PoolOptions ==
  [maxSize : 1..MaxPoolSize, minSize : 0..MaxPoolSize,
   maxWaitingClients : 1..MaxWaiting, testOnBorrow : BOOLEAN,
   testOnRelease : BOOLEAN, acquireTimeoutMillis : AcquireTimeouts]

\* The state as one record p, so that the methods below are functions from
\* state to state.  over: the run would pass a bound of the model; thrown: the
\* error a synchronous call has thrown.
Cur ==
  [options |-> options, status |-> status, allResources |-> allResources,
   availableResources |-> availableResources,
   unfulfilledRequests |-> unfulfilledRequests, created |-> created,
   createCalls |-> createCalls, rstatus |-> rstatus, listeners |-> listeners,
   destroyCalls |-> destroyCalls, acq |-> acq, ticks |-> ticks,
   startPc |-> startPc, bgCreating |-> bgCreating, bgLoop |-> bgLoop,
   onceCreating |-> onceCreating, relValidating |-> relValidating,
   holders |-> holders, handed |-> handed, misuse |-> misuse,
   bufferFull |-> bufferFull, moves |-> {}, over |-> FALSE, thrown |-> ""]

Commit(p) ==
  /\ ~p.over
  /\ options' = p.options
  /\ status' = p.status
  /\ allResources' = p.allResources
  /\ availableResources' = p.availableResources
  /\ unfulfilledRequests' = p.unfulfilledRequests
  /\ created' = p.created
  /\ createCalls' = p.createCalls
  /\ rstatus' = p.rstatus
  /\ listeners' = p.listeners
  /\ destroyCalls' = p.destroyCalls
  /\ acq' = p.acq
  /\ ticks' = p.ticks
  /\ startPc' = p.startPc
  /\ bgCreating' = p.bgCreating
  /\ bgLoop' = p.bgLoop
  /\ onceCreating' = p.onceCreating
  /\ relValidating' = p.relValidating
  /\ holders' = p.holders
  /\ handed' = p.handed
  /\ misuse' = p.misuse
  /\ bufferFull' = p.bufferFull
  /\ moves' = p.moves
  /\ lastError' = p.thrown
  /\ UNCHANGED <<queue, reference, returned, expected>>

\* new Pool(factory, poolOptions) with the given options
PoolInit(opts) ==
  /\ options \in opts
  /\ status = NOT_STARTED
  /\ allResources = CircularQueue(options.maxSize)
  /\ availableResources = CircularQueue(options.maxSize)
  /\ unfulfilledRequests = <<>>
  /\ created = 0
  /\ createCalls = 0
  /\ rstatus = [r \in Res |-> "NONE"]
  /\ listeners = [r \in Res |-> 0]
  /\ destroyCalls = [r \in Res |-> 0]
  /\ acq = [i \in Acq |-> NoCall]
  /\ ticks = <<>>
  /\ startPc = "none"
  /\ bgCreating = 0
  /\ bgLoop = 0
  /\ onceCreating = 0
  /\ relValidating = [r \in Res |-> 0]
  /\ holders = [r \in Res |-> 0]
  /\ handed = {}
  /\ misuse = 0
  /\ bufferFull = 0
  /\ moves = {}
  /\ lastError = ""

\* a pool with any of the options; the queue exercised on its own is not used
Init ==
  /\ PoolInit(PoolOptions)
  /\ queue = CircularQueue(1)
  /\ reference = <<>>
  /\ returned = NoReturn
  /\ expected = NoReturn

\* ------------------------------------------------------------ PoolResource
\* canSwitch accepts every change
canSwitch(from, to) == TRUE

\* setStatus: nothing if the status is the same; the change is applied when
\* canSwitch accepts it (moves records it as <<oldStatus, newStatus>>); one
\* listener is popped and handed to process.nextTick
setStatus(p, r, newStatus) ==
  IF p.rstatus[r] = newStatus THEN p
  ELSE IF ~canSwitch(p.rstatus[r], newStatus)
       THEN [p EXCEPT !.thrown = "InvalidStateTransition"]
  ELSE LET q == [p EXCEPT !.moves = @ \cup {<<p.rstatus[r], newStatus>>}]
       IN IF q.listeners[r] > 0
          THEN [q EXCEPT !.rstatus[r] = newStatus,
                         !.listeners[r] = @ - 1,
                         !.ticks = Append(@, [kind |-> "listener", req |-> 0, res |-> r])]
          ELSE [q EXCEPT !.rstatus[r] = newStatus]

registerStatusChangeListerner(p, r) == [p EXCEPT !.listeners[r] = @ + 1]

\* ------------------------------------------------------ UnfulfilledRequest
\* mutant: the constructor does not start the timer
UnfulfilledRequestNoTimer(timeout) ==
  [pc |-> "waiting", res |-> 0, err |-> "", carried |-> 0, timeoutMs |-> timeout,
   resolved |-> FALSE, timer |-> FALSE, settles |-> 0]

\* new UnfulfilledRequest(resolve, reject, timeout): the timer is started
UnfulfilledRequest(timeout) ==
  [pc |-> "waiting", res |-> 0, err |-> "", carried |-> 0, timeoutMs |-> timeout,
   resolved |-> FALSE, timer |-> TRUE, settles |-> 0]

\* the promise of acquire() call i is settled by the first continuation invoked
settle(p, i, pc, r, err, carried) ==
  IF p.acq[i].pc = "waiting"
  THEN [p EXCEPT !.acq[i].pc = pc, !.acq[i].res = r, !.acq[i].err = err,
                 !.acq[i].carried = carried, !.acq[i].settles = @ + 1,
                 !.holders = IF pc = "resolved" THEN [@ EXCEPT ![r] = @ + 1] ELSE @,
                 !.handed = IF pc = "resolved" THEN @ \cup {r} ELSE @]
  ELSE [p EXCEPT !.acq[i].settles = @ + 1]

\* mutant: reject does not test the resolved flag
rejectUnguarded(p, i, err, carried) ==
  settle([p EXCEPT !.acq[i].resolved = TRUE, !.acq[i].timer = FALSE],
         i, "rejected", 0, err, carried)

\* UnfulfilledRequest.reject
reject(p, i, err, carried) ==
  IF p.acq[i].resolved THEN p
  ELSE settle([p EXCEPT !.acq[i].resolved = TRUE, !.acq[i].timer = FALSE],
              i, "rejected", 0, err, carried)

\* UnfulfilledRequest.timeout
timeout(p, i) ==
  reject([p EXCEPT !.acq[i].timer = FALSE], i, "AcquireTimeout", p.acq[i].timeoutMs)


\* -------------------------------------------------------------------- Pool
getPoolSize(p) == getSize(p.allResources)

getNumAvailable(p) == getSize(p.availableResources)

getNumConnectionsInState(p, s) ==
  count(p.allResources, {r \in Res : p.rstatus[r] = s})

\* getStatusCounts: one counter per status, incremented by forEach for each
\* element it visits
getStatusCounts(p) ==
  LET visited == forEach(p.allResources)
  IN [s \in ResourceStatus \ {"NONE"} |->
        Cardinality({k \in 1..Len(visited) : p.rstatus[visited[k]] = s})]

\* mutant: switchStatus accepts every move forward
switchStatusForward(p, newStatus) ==
  IF p.status >= newStatus
  THEN [p EXCEPT !.thrown = "InvalidStateTransition"]
  ELSE [p EXCEPT !.status = newStatus]

\* switchStatus throws unless the pool is in the status just before newStatus
switchStatus(p, newStatus) ==
  IF p.status # newStatus - 1
  THEN [p EXCEPT !.thrown = "InvalidStateTransition"]
  ELSE [p EXCEPT !.status = newStatus]

\* a checkMinSize() or createNewIfPossible() task of the given kind ("start",
\* "bg": from destroyPoolResource, "once": from acquire) starts to await
\* factory.create()
awaitCreate(p, kind) ==
  IF p.createCalls >= MaxCreate THEN [p EXCEPT !.over = TRUE]
  ELSE LET q == [p EXCEPT !.createCalls = @ + 1]
       IN CASE kind = "start" -> [q EXCEPT !.startPc = "creating"]
            [] kind = "bg" -> [q EXCEPT !.bgCreating = @ + 1]
            [] OTHER -> [q EXCEPT !.onceCreating = @ + 1]

\* the task awaits the promise of a createNewIfPossible() that has returned
awaitLoop(p, kind) ==
  CASE kind = "start" -> [p EXCEPT !.startPc = "loop"]
    [] kind = "bg" -> [p EXCEPT !.bgLoop = @ + 1]
    [] OTHER -> p

\* mutant: a failed background task rejects the latest pending request
endTaskRejectWaiter(p, kind, err) ==
  IF kind = "start"
  THEN (IF err = "" THEN [p EXCEPT !.startPc = "ending"]
        ELSE [p EXCEPT !.startPc = "failed", !.thrown = err])
  ELSE LET n == Len(p.unfulfilledRequests)
       IN IF err # "" /\ n > 0
          THEN [reject(p, p.unfulfilledRequests[n], err, 0) EXCEPT !.thrown = ""]
          ELSE [p EXCEPT !.thrown = ""]

\* the task's promise is settled: err is "" when it is fulfilled.  start()
\* passes the error on to its caller; nobody awaits the tasks in the background
endTask(p, kind, err) ==
  IF kind = "start"
  THEN (IF err = "" THEN [p EXCEPT !.startPc = "ending"]
        ELSE [p EXCEPT !.startPc = "failed", !.thrown = err])
  ELSE [p EXCEPT !.thrown = ""]

\* createNewIfPossible up to its await
createNewIfPossible(p, kind) ==
  IF isFull(p.allResources) THEN awaitLoop(p, kind)
  ELSE awaitCreate(p, kind)

\* checkMinSize: one test of the loop condition and what follows it up to the
\* next await
checkMinSize(p, kind) ==
  IF /\ p.status \in {STARTING, STARTED}
     /\ getPoolSize(p) < p.options.minSize
  THEN createNewIfPossible(p, kind)
  ELSE endTask(p, kind, "")

destroyPoolResource(p, r) ==
  LET p1 == setStatus(p, r, "DESTROYED")
      p2 == [p1 EXCEPT !.allResources = fastRemove(@, r).q,
                       !.destroyCalls[r] = @ + 1]
  IN checkMinSize(p2, "bg")

\* mutant: the resource is not marked
markResourceAsLentNot(p, r) == p

markResourceAsLent(p, r) == setStatus(p, r, "LENT")

\* doMakeAvailable: the push throws 'Buffer full' on a full available queue
doMakeAvailable(p, r) ==
  LET p1 == setStatus(p, r, "AVAILABLE")
  IN IF isFull(p1.availableResources) THEN [p1 EXCEPT !.thrown = "BufferFull"]
     ELSE [p1 EXCEPT !.availableResources = push(@, r)]

RECURSIVE doFastDispatch(_, _)

\* UnfulfilledRequest.resolve
resolve(p, i, r) ==
  IF p.acq[i].resolved THEN doFastDispatch(p, r)
  ELSE settle([p EXCEPT !.acq[i].resolved = TRUE, !.acq[i].timer = FALSE],
              i, "resolved", r, "", 0)

\* mutant: the request is resolved within the dispatch, not on the next tick
fulfillUnfulfilledSync(p, i, r) ==
  IF p.acq[i].resolved THEN doFastDispatch(p, r)
  ELSE resolve(markResourceAsLent(p, r), i, r)

\* mutant: a resource offered to a settled request is dropped
fulfillUnfulfilledDrop(p, i, r) ==
  IF p.acq[i].resolved THEN p
  ELSE LET p1 == markResourceAsLent(p, r)
       IN [p1 EXCEPT !.ticks = Append(@, [kind |-> "resolve", req |-> i, res |-> r])]

\* mutant: the resource given to a pending request is also pushed onto the
\* available buffer
fulfillUnfulfilledShared(p, i, r) ==
  IF p.acq[i].resolved THEN doFastDispatch(p, r)
  ELSE LET p1 == markResourceAsLent(p, r)
           p2 == IF isFull(p1.availableResources) THEN p1
                 ELSE [p1 EXCEPT !.availableResources = push(@, r)]
       IN [p2 EXCEPT !.ticks = Append(@, [kind |-> "resolve", req |-> i, res |-> r])]

fulfillUnfulfilled(p, i, r) ==
  IF p.acq[i].resolved THEN doFastDispatch(p, r)
  ELSE LET p1 == markResourceAsLent(p, r)
       IN [p1 EXCEPT !.ticks = Append(@, [kind |-> "resolve", req |-> i, res |-> r])]

\* mutant: the dispatch does not test the pool status
doFastDispatchNoStop(p, r) ==
  LET p1 == setStatus(p, r, "FAST_DISPATCH")
      n == Len(p1.unfulfilledRequests)
  IN IF n > 0
     THEN fulfillUnfulfilled(
            [p1 EXCEPT !.unfulfilledRequests = SubSeq(@, 1, n - 1)],
            p1.unfulfilledRequests[n], r)
     ELSE doMakeAvailable(p1, r)

\* mutant: the dispatch serves the oldest pending request (shift for pop)
doFastDispatchFifo(p, r) ==
  IF p.status >= STOPPING THEN destroyPoolResource(p, r)
  ELSE LET p1 == setStatus(p, r, "FAST_DISPATCH")
       IN IF Len(p1.unfulfilledRequests) > 0
          THEN fulfillUnfulfilled(
                 [p1 EXCEPT !.unfulfilledRequests = Tail(@)],
                 Head(p1.unfulfilledRequests), r)
          ELSE doMakeAvailable(p1, r)

\* mutant: the dispatch makes the resource available without looking at the
\* pending requests
doFastDispatchIdle(p, r) ==
  IF p.status >= STOPPING THEN destroyPoolResource(p, r)
  ELSE doMakeAvailable(setStatus(p, r, "FAST_DISPATCH"), r)

\* mutant: the dispatch does not mark the resource FAST_DISPATCH
doFastDispatchUnmarked(p, r) ==
  IF p.status >= STOPPING THEN destroyPoolResource(p, r)
  ELSE LET n == Len(p.unfulfilledRequests)
       IN IF n > 0
          THEN fulfillUnfulfilled(
                 [p EXCEPT !.unfulfilledRequests = SubSeq(@, 1, n - 1)],
                 p.unfulfilledRequests[n], r)
          ELSE doMakeAvailable(p, r)

doFastDispatch(p, r) ==
  IF p.status >= STOPPING THEN destroyPoolResource(p, r)
  ELSE LET p1 == setStatus(p, r, "FAST_DISPATCH")
           n == Len(p1.unfulfilledRequests)
       IN IF n > 0
          THEN fulfillUnfulfilled(
                 [p1 EXCEPT !.unfulfilledRequests = SubSeq(@, 1, n - 1)],
                 p1.unfulfilledRequests[n], r)
          ELSE doMakeAvailable(p1, r)


\* the async function acquire() of call i returns r or throws err
finish(p, i, pc, r, err) ==
  [p EXCEPT !.acq[i].pc = pc, !.acq[i].res = r, !.acq[i].err = err,
            !.holders = IF pc = "resolved" THEN [@ EXCEPT ![r] = @ + 1] ELSE @,
            !.handed = IF pc = "resolved" THEN @ \cup {r} ELSE @]

\* acquireAvailablePoolResource: isValid returns the promise of
\* factory.validate, which is truthy, so the resource is always marked LENT.
\* Gives the state afterwards (p) and the resource returned (r).
acquireAvailablePoolResource(p) ==
  LET sh == shift(p.availableResources)
  IN [p |-> markResourceAsLent([p EXCEPT !.availableResources = sh.q], sh.e),
      r |-> sh.e]

\* mutant: the pending queue is tested with <= instead of <
acquireLoopOffByOne(p, i) ==
  IF ~isEmpty(p.availableResources)
  THEN LET a == acquireAvailablePoolResource(p)
       IN IF p.options.testOnBorrow
          THEN [a.p EXCEPT !.acq[i].pc = "validating", !.acq[i].res = a.r]
          ELSE finish(a.p, i, "resolved", a.r, "")
  ELSE IF Len(p.unfulfilledRequests) <= p.options.maxWaitingClients
       THEN LET p1 == createNewIfPossible(p, "once")
            IN [p1 EXCEPT
                  !.acq[i] = UnfulfilledRequest(p.options.acquireTimeoutMillis),
                  !.unfulfilledRequests = Append(@, i)]
       ELSE finish(p, i, "rejected", 0, "MaxWaitingClientsReached")

\* acquire from the test of the while loop up to the next await or the return
acquireLoop(p, i) ==
  IF ~isEmpty(p.availableResources)
  THEN LET a == acquireAvailablePoolResource(p)
       IN IF p.options.testOnBorrow
          THEN [a.p EXCEPT !.acq[i].pc = "validating", !.acq[i].res = a.r]
          ELSE finish(a.p, i, "resolved", a.r, "")
  ELSE IF Len(p.unfulfilledRequests) < p.options.maxWaitingClients
       THEN LET p1 == createNewIfPossible(p, "once")
            IN [p1 EXCEPT
                  !.acq[i] = UnfulfilledRequest(p.options.acquireTimeoutMillis),
                  !.unfulfilledRequests = Append(@, i)]
       ELSE finish(p, i, "rejected", 0, "MaxWaitingClientsReached")

\* mutant: acquire() does not test the pool status
acquireAnyStatus(p, i) == acquireLoop(p, i)

acquire(p, i) ==
  IF p.status # STARTED THEN finish(p, i, "rejected", 0, "InvalidPoolState")
  ELSE acquireLoop(p, i)

\* mutant: stop() empties the available queue without destroying anything
stopDropAvailable(p) ==
  [p EXCEPT !.availableResources = CircularQueue(p.options.maxSize)]

\* stop(): while (!availableResources.isEmpty()) destroy the shifted resource
RECURSIVE stopDestroyAvailable(_)
stopDestroyAvailable(p) ==
  IF isEmpty(p.availableResources) THEN p
  ELSE LET sh == shift(p.availableResources)
       IN stopDestroyAvailable(
            destroyPoolResource([p EXCEPT !.availableResources = sh.q], sh.e))

\* mutant: stop() rejects the latest pending request only (if for while)
stopRejectLast(p) ==
  LET n == Len(p.unfulfilledRequests)
  IN IF n = 0 THEN p
     ELSE reject([p EXCEPT !.unfulfilledRequests = SubSeq(@, 1, n - 1)],
                 p.unfulfilledRequests[n], "PoolShuttingDown", 0)

\* stop(): while (unfulfilledRequests.length > 0) reject the popped request
RECURSIVE stopRejectPending(_)
stopRejectPending(p) ==
  LET n == Len(p.unfulfilledRequests)
  IN IF n = 0 THEN p
     ELSE stopRejectPending(
            reject([p EXCEPT !.unfulfilledRequests = SubSeq(@, 1, n - 1)],
                   p.unfulfilledRequests[n], "PoolShuttingDown", 0))

\* stop(): allResources.forEach registers a listener on every LENT resource;
\* rs is what is left of the elements forEach visits
RECURSIVE stopArmLent(_, _)
stopArmLent(p, rs) ==
  IF rs = <<>> THEN p
  ELSE stopArmLent(IF p.rstatus[Head(rs)] = "LENT"
                   THEN registerStatusChangeListerner(p, Head(rs)) ELSE p,
                   Tail(rs))

\* mutant: stop() does not switch to STOPPING first
stopUnchecked(p) ==
  LET p2 == stopDestroyAvailable(p)
      p3 == stopRejectPending(p2)
      p4 == stopArmLent(p3, forEach(p3.allResources))
  IN switchStatus(p4, STOPPED)

stop(p) ==
  LET p1 == switchStatus(p, STOPPING)
  IN IF p1.thrown # "" THEN p1
     ELSE LET p2 == stopDestroyAvailable(p1)
              p3 == stopRejectPending(p2)
              p4 == stopArmLent(p3, forEach(p3.allResources))
          IN switchStatus(p4, STOPPED)

\* release(resource) of the resource with identity r, up to its await or return
release(p, r) ==
  IF find(p.allResources, {r}) = 0 THEN p
  ELSE IF p.options.testOnRelease THEN [p EXCEPT !.relValidating[r] = @ + 1]
       ELSE doFastDispatch(p, r)

\* createNewIfPossible after its await: the factory's promise is fulfilled
\* (ok) or rejected
createNewIfPossibleResume(p, kind, ok) ==
  IF ~ok THEN endTask(p, kind, "CreateFailed")
  ELSE LET id == p.created + 1
           p1 == [p EXCEPT !.created = id, !.rstatus[id] = "NEW"]
       IN IF isFull(p1.allResources)
          THEN endTask([p1 EXCEPT !.bufferFull = @ + 1], kind, "BufferFull")
          ELSE LET p2 == doFastDispatch(
                           [p1 EXCEPT !.allResources = push(@, id)], id)
               IN IF p2.thrown # "" THEN endTask(p2, kind, p2.thrown)
                  ELSE awaitLoop(p2, kind)

\* ---------------------------------------------------------------- actions
\* start(p): the call up to its await; it throws unless the pool is NOT_STARTED
start(p) ==
  IF p.status # NOT_STARTED THEN [p EXCEPT !.thrown = "PoolAlreadyStarted"]
  ELSE checkMinSize(switchStatus(p, STARTING), "start")

\* pool.start() on a pool that has not been started
Start ==
  /\ status = NOT_STARTED
  /\ Commit(start(Cur))

\* pool.start() on a pool that has been started: it fails and changes nothing
StartRejected ==
  /\ status # NOT_STARTED
  /\ Commit(start(Cur))

\* start() after await checkMinSize()
StartFinish ==
  /\ startPc = "ending"
  /\ LET p1 == switchStatus(Cur, STARTED)
     IN Commit([p1 EXCEPT !.startPc = IF p1.thrown = "" THEN "done" ELSE "failed"])

\* pool.stop() on a STARTED pool
Stop ==
  /\ status = STARTED
  /\ Commit(stop(Cur))

\* pool.stop() in any other status: switchStatus throws and nothing changes
StopRejected ==
  /\ status # STARTED
  /\ Commit(stop(Cur))

\* pool.acquire(): the calls are numbered in the order they are made
Acquire(i) ==
  /\ acq[i].pc = "idle"
  /\ \A j \in Acq : j < i => acq[j].pc # "idle"
  /\ Commit(acquire(Cur, i))

\* acquire() after await factory.validate(): it answered true, false or failed
AcquireValidated(i, outcome) ==
  /\ acq[i].pc = "validating"
  /\ LET p == Cur
         r == acq[i].res
     IN CASE outcome = "valid" -> Commit(finish(p, i, "resolved", r, ""))
          [] outcome = "invalid" -> Commit(acquireLoop(destroyPoolResource(p, r), i))
          [] OTHER -> Commit(finish(p, i, "rejected", 0, "ValidateFailed"))

\* the timer of a pending request fires; timers never run before the
\* nextTick queue is empty
Timeout(i) ==
  /\ acq[i].timer
  /\ ticks = <<>>
  /\ Commit(timeout(Cur, i))

\* the first callback of the nextTick queue runs
Tick ==
  /\ ticks # <<>>
  /\ LET t == Head(ticks)
         p == [Cur EXCEPT !.ticks = Tail(@)]
     IN IF t.kind = "resolve" THEN Commit(resolve(p, t.req, t.res))
        ELSE Commit(destroyPoolResource(p, t.res))

\* pool.release(resource) by a caller that holds the resource
Release(r) ==
  /\ holders[r] > 0
  /\ Commit(release([Cur EXCEPT !.holders[r] = @ - 1], r))

\* pool.release(resource) once more, by a caller that has released it already
ReleaseAgain(r) ==
  /\ r \in handed
  /\ holders[r] = 0
  /\ misuse < MaxMisuse
  /\ Commit(release([Cur EXCEPT !.misuse = @ + 1], r))

\* release() after await factory.validate()
ReleaseValidated(r, outcome) ==
  /\ relValidating[r] > 0
  /\ LET p == [Cur EXCEPT !.relValidating[r] = @ - 1]
     IN CASE outcome = "valid" -> Commit(doFastDispatch(p, r))
          [] outcome = "invalid" -> Commit(destroyPoolResource(p, r))
          [] OTHER -> Commit([p EXCEPT !.thrown = "ValidateFailed"])

\* factory.create() settles for a task of the given kind
CreateDone(kind, ok) ==
  /\ CASE kind = "start" -> startPc = "creating"
       [] kind = "bg" -> bgCreating > 0
       [] OTHER -> onceCreating > 0
  /\ LET p == CASE kind = "start" -> Cur
                [] kind = "bg" -> [Cur EXCEPT !.bgCreating = @ - 1]
                [] OTHER -> [Cur EXCEPT !.onceCreating = @ - 1]
     IN Commit(createNewIfPossibleResume(p, kind, ok))

\* checkMinSize() after await createNewIfPossible(): the loop is tested again
CheckMinSizeLoop(kind) ==
  /\ CASE kind = "start" -> startPc = "loop"
       [] OTHER -> bgLoop > 0
  /\ LET p == IF kind = "start" THEN Cur ELSE [Cur EXCEPT !.bgLoop = @ - 1]
     IN Commit(checkMinSize(p, kind))

Next ==
  \/ Start
  \/ StartFinish
  \/ Stop
  \/ \E i \in Acq : Acquire(i)
  \/ \E i \in Acq, o \in {"valid", "invalid", "failed"} : AcquireValidated(i, o)
  \/ \E i \in Acq : Timeout(i)
  \/ Tick
  \/ \E r \in Res : Release(r)
  \/ \E r \in Res, o \in {"valid", "invalid", "failed"} : ReleaseValidated(r, o)
  \/ \E k \in {"start", "bg", "once"}, ok \in BOOLEAN : CreateDone(k, ok)
  \/ \E k \in {"start", "bg"} : CheckMinSizeLoop(k)

Spec == Init /\ [][Next]_vars

\* the same with the start() and stop() calls that fail without an effect
NextCalls == Next \/ StartRejected \/ StopRejected

SpecCalls == Init /\ [][NextCalls]_vars

\* the same with callers that release a resource they have released before
NextMisuse == Next \/ \E r \in Res : ReleaseAgain(r)

SpecMisuse == Init /\ [][NextMisuse]_vars

\* the elements a queue stores, from its head to its tail
contents(q) ==
  [k \in 1..q.size |-> q.buffer[(q.startIdx + k - 1) % q.capacity]]

stored(q) == {contents(q)[k] : k \in 1..q.size}

\* the requests of the pending queue that are not settled
unsettled == {unfulfilledRequests[k] : k \in 1..Len(unfulfilledRequests)}
               \cap {i \in Acq : ~acq[i].resolved}

\* the resources the factory has produced and nobody has destroyed
live == {r \in Res : rstatus[r] # "NONE" /\ destroyCalls[r] = 0}

\* ------------------------------------------------------------------ claims

\* C1: under any interleaving of acquire() calls, background creations and
\* min-size replenishment, the resources produced by the factory and not yet
\* destroyed never number more than maxSize, and no creation ends in a
\* 'Buffer full' error.
C1_CreationBoundedByMaxSize ==
  /\ Cardinality(live) <= options.maxSize
  /\ bufferFull = 0

\* C2: releasing a LENT resource that a STARTED pool tracks while an unsettled
\* request is pending (test-on-release off) hands it to exactly one pending
\* request: the resource stays LENT, the available buffer is untouched, one
\* resolution of an unsettled request with that resource is scheduled and no
\* request is settled by the release itself; at every pool size up to maxSize.
C2_ReleaseFulfilsOnePending ==
  [][\A r \in Res :
       (/\ holders'[r] = holders[r] - 1
        /\ status = STARTED
        /\ rstatus[r] = "LENT"
        /\ r \in stored(allResources)
        /\ ~options.testOnRelease
        /\ unsettled # {})
       => (/\ rstatus'[r] = "LENT"
           /\ availableResources' = availableResources
           /\ acq' = acq
           /\ \E i \in unsettled :
                 ticks' = Append(ticks, [kind |-> "resolve", req |-> i, res |-> r]))
    ]_vars

\* C3: releasing a LENT resource that a STARTED pool tracks when no request is
\* pending (test-on-release off) makes it AVAILABLE and appends it to the tail
\* of the available buffer, whose count grows by one; at every pool size from
\* 1 up to maxSize.
C3_ReleaseMakesAvailable ==
  [][\A r \in Res :
       (/\ holders'[r] = holders[r] - 1
        /\ status = STARTED
        /\ rstatus[r] = "LENT"
        /\ r \in stored(allResources)
        /\ ~options.testOnRelease
        /\ unfulfilledRequests = <<>>)
       => (/\ rstatus'[r] = "AVAILABLE"
           /\ getSize(availableResources') = getSize(availableResources) + 1
           /\ contents(availableResources') = Append(contents(availableResources), r))
    ]_vars

\* C4: the factory's destroy is invoked at most once for any resource.
C4_DestroyedAtMostOnce == \A r \in Res : destroyCalls[r] <= 1



\* acquire() call i has been settled as resolved / as rejected with err
resolvedBy(i) == acq[i].pc = "resolved"

rejectedWith(i, err) == acq[i].pc = "rejected" /\ acq[i].err = err

\* C5: a pending acquire() leaves the pending state only when a resource
\* dispatched to it is delivered (it resolves with that resource), when its
\* timer fires (it fails with AcquireTimeout carrying the configured timeout)
\* or when the pool is stopped.
C5_PendingSettlesOnlyBy ==
  [][\A i \in Acq :
       (acq[i].pc = "waiting" /\ acq'[i].pc # "waiting")
       => \/ /\ acq'[i].pc = "resolved"
             /\ ticks # <<>>
             /\ Head(ticks) = [kind |-> "resolve", req |-> i, res |-> acq'[i].res]
             /\ ticks' = Tail(ticks)
          \/ /\ acq'[i].pc = "rejected"
             /\ acq'[i].err = "AcquireTimeout"
             /\ acq'[i].carried = options.acquireTimeoutMillis
             /\ acq[i].timer
          \/ /\ acq'[i].pc = "rejected"
             /\ acq'[i].err = "PoolShuttingDown"
             /\ status = STARTED
             /\ status' = STOPPED
    ]_vars

C5_Witness ==
  \E i, j \in Acq :
    /\ resolvedBy(i) /\ acq[i].settles = 1
    /\ rejectedWith(j, "AcquireTimeout")

\* the code's scheduling: the nextTick queue is run, timers fire, and the
\* factory answers every validate
FairSpec ==
  /\ Spec
  /\ WF_vars(Tick)
  /\ \A i \in Acq : WF_vars(Timeout(i))
  /\ \A i \in Acq :
       WF_vars(\E o \in {"valid", "invalid", "failed"} : AcquireValidated(i, o))

\* C6: every acquire() on a STARTED pool eventually settles: a call that
\* awaits a validation or is queued ends resolved with a resource, rejected by
\* shutdown (or by a failed validation or a full pending queue met after one),
\* or failed with AcquireTimeout carrying the configured acquireTimeoutMillis.
C6_AcquireEventuallySettles ==
  \A i \in Acq :
    (acq[i].pc \in {"validating", "waiting"})
      ~> \/ resolvedBy(i)
         \/ rejectedWith(i, "PoolShuttingDown")
         \/ rejectedWith(i, "ValidateFailed")
         \/ rejectedWith(i, "MaxWaitingClientsReached")
         \/ /\ rejectedWith(i, "AcquireTimeout")
            /\ acq[i].carried = options.acquireTimeoutMillis

C6_Witness ==
  \E i \in Acq :
    /\ rejectedWith(i, "AcquireTimeout")
    /\ acq[i].carried = options.acquireTimeoutMillis
    /\ status = STARTED

\* C7: each pending request is settled exactly once: its continuations are
\* invoked at most once in total, and once it is settled no later resolve or
\* reject attempt changes the caller's outcome.
C7_SettledExactlyOnce ==
  [][\A i \in Acq :
       /\ acq'[i].settles <= 1
       /\ acq[i].pc \in {"resolved", "rejected"}
            => /\ acq'[i].pc = acq[i].pc
               /\ acq'[i].res = acq[i].res
               /\ acq'[i].err = acq[i].err
               /\ acq'[i].carried = acq[i].carried
    ]_vars

\* a request timed out in the queue and stop() then tried to reject it
C7_Witness ==
  /\ status = STOPPED
  /\ created = 0
  /\ \E i \in Acq : rejectedWith(i, "AcquireTimeout") /\ acq[i].settles = 1

\* C8: a dispatch that takes an already settled (timed out) request from the
\* pending queue does not lose the resource: it goes on to an unsettled
\* request (LENT, its resolution scheduled) or to the tail of the available
\* buffer (AVAILABLE).
C8_TimedOutDispatchKeepsResource ==
  [][(/\ status' < STOPPING
      /\ Len(unfulfilledRequests') < Len(unfulfilledRequests)
      /\ \E k \in (Len(unfulfilledRequests') + 1)..Len(unfulfilledRequests) :
           acq[unfulfilledRequests[k]].resolved)
     => \E r \in Res :
          \/ /\ rstatus'[r] = "AVAILABLE"
             /\ contents(availableResources')
                  = Append(contents(availableResources), r)
          \/ /\ rstatus'[r] = "LENT"
             /\ \E i \in unsettled :
                  ticks' = Append(ticks, [kind |-> "resolve", req |-> i, res |-> r])
    ]_vars

C8_Witness ==
  /\ status = STARTED
  /\ \E i \in Acq :
       /\ rejectedWith(i, "AcquireTimeout")
       /\ \A k \in 1..Len(unfulfilledRequests) : unfulfilledRequests[k] # i
  /\ \E r \in Res : rstatus[r] = "AVAILABLE" /\ r \in stored(availableResources)

\* the factory.destroy() invocations so far
RECURSIVE sumDestroyCalls(_, _)
sumDestroyCalls(d, n) == IF n = 0 THEN 0 ELSE d[n] + sumDestroyCalls(d, n - 1)

\* C9: stop() on a STARTED pool destroys every resource of the available
\* buffer, leaves every LENT resource LENT and ends with the pool STOPPED in
\* the same run, lent resources or not: afterwards the available count is 0
\* and the destroy calls made are as many as the resources that were available.
C9_StopDestroysAvailableOnly ==
  [][(status = STARTED /\ status' # STARTED)
     => /\ status' = STOPPED
        /\ getSize(availableResources') = 0
        /\ sumDestroyCalls(destroyCalls', MaxCreate)
             = sumDestroyCalls(destroyCalls, MaxCreate) + getSize(availableResources)
        /\ \A r \in stored(availableResources) :
             rstatus'[r] = "DESTROYED" /\ destroyCalls'[r] = destroyCalls[r] + 1
        /\ \A r \in Res : rstatus[r] = "LENT" => rstatus'[r] = "LENT"
    ]_vars

C9_Witness ==
  /\ status = STOPPED
  /\ getSize(availableResources) = 0
  /\ \E r, l \in Res :
       /\ rstatus[r] = "DESTROYED" /\ destroyCalls[r] = 1
       /\ rstatus[l] = "LENT" /\ holders[l] = 1 /\ destroyCalls[l] = 0

\* C10: stop() rejects every request of the pending queue that is unsettled
\* with PoolShuttingDown and leaves the pending queue empty.
C10_StopRejectsPending ==
  [][(status = STARTED /\ status' # STARTED)
     => /\ unfulfilledRequests' = <<>>
        /\ \A i \in unsettled :
             /\ acq'[i].pc = "rejected"
             /\ acq'[i].err = "PoolShuttingDown"
             /\ acq'[i].resolved
             /\ ~acq'[i].timer
    ]_vars

C10_Witness ==
  /\ status = STOPPED
  /\ \E i, j \in Acq : i # j /\ rejectedWith(i, "PoolShuttingDown")
                             /\ rejectedWith(j, "PoolShuttingDown")


\* C11: a resource LENT when stop() ran is destroyed by its holder's release
\* (test-on-release off): the release sets it DESTROYED, calls the factory's
\* destroy for it, takes it out of the all-resources buffer, whose size drops
\* by one, and neither makes it available nor hands it to a request; at every
\* pool size up to maxSize at the time of stop().
C11_LentDestroyedOnRelease ==
  [][\A r \in Res :
       (/\ holders'[r] = holders[r] - 1
        /\ status = STOPPED
        /\ rstatus[r] = "LENT"
        /\ r \in stored(allResources)
        /\ ~options.testOnRelease)
       => (/\ rstatus'[r] = "DESTROYED"
           /\ destroyCalls'[r] = destroyCalls[r] + 1
           /\ r \notin stored(allResources')
           /\ getSize(allResources') = getSize(allResources) - 1
           /\ availableResources' = availableResources
           /\ acq' = acq)
    ]_vars

\* C12: once the pool is STOPPING or STOPPED no acquire() call is handed a
\* resource and none becomes a pending request, whether the call is made
\* then, was suspended in its test-on-borrow validation or had been dispatched
\* a resource when stop() ran.
C12_NoAcquireAfterStop ==
  [][\A i \in Acq :
       (status >= STOPPING /\ acq[i].pc \in {"idle", "validating", "waiting"})
       => /\ acq'[i].pc # "resolved"
          /\ acq[i].pc # "waiting" => acq'[i].pc # "waiting"
          /\ Len(unfulfilledRequests') <= Len(unfulfilledRequests)
    ]_vars

\* C12, the case the claim names: an acquire() suspended in test-on-borrow
\* validation when stop() ran neither returns a resource nor queues a request
\* when it resumes.
C12_ValidatingAcquireAfterStop ==
  [][\A i \in Acq :
       (status >= STOPPING /\ acq[i].pc = "validating")
       => acq'[i].pc \notin {"resolved", "waiting"}
    ]_vars

\* C13: in every state after stop() has completed the available buffer is
\* empty and no resource has status AVAILABLE, whatever creations,
\* validations or releases complete afterwards.
C13_NothingAvailableAfterStop ==
  status >= STOPPING
  => /\ getSize(availableResources) = 0
     /\ isEmpty(availableResources)
     /\ \A r \in Res : rstatus[r] # "AVAILABLE"

\* a resource lent when stop() ran has been released since (the release and
\* the listener stop() registered both destroyed it), and a creation has
\* completed after stop()
C13_Witness ==
  /\ status = STOPPED
  /\ \E r \in Res : r \in handed /\ holders[r] = 0 /\ destroyCalls[r] = 2
  /\ \E r \in Res : r \notin handed /\ rstatus[r] = "DESTROYED"
                    /\ \E i \in Acq : rejectedWith(i, "PoolShuttingDown")

\* C14: acquire() called while the pool is not STARTED (NOT_STARTED, STARTING,
\* STOPPING or STOPPED) fails with InvalidPoolState and changes nothing: no
\* resource changes status, nothing is created, no request is enqueued.
C14_AcquireNeedsStarted ==
  [][\A i \in Acq :
       (acq[i].pc = "idle" /\ acq'[i].pc # "idle" /\ status # STARTED)
       => /\ acq'[i] = [NoCall EXCEPT !.pc = "rejected", !.err = "InvalidPoolState"]
          /\ \A j \in Acq \ {i} : acq'[j] = acq[j]
          /\ UNCHANGED <<options, status, allResources, availableResources,
                         unfulfilledRequests, created, createCalls, rstatus,
                         listeners, destroyCalls, ticks, startPc, bgCreating,
                         bgLoop, onceCreating, relValidating, holders, handed,
                         bufferFull>>
    ]_vars

\* the first call was made before start() had completed, the second was
\* served, the third was made after stop()
C14_Witness ==
  /\ status = STOPPED
  /\ rejectedWith(1, "InvalidPoolState")
  /\ resolvedBy(2)
  /\ rejectedWith(3, "InvalidPoolState")

\* C15: when start() completes on a pool with minSize = N, 0 <= N <= maxSize,
\* the factory's create has been invoked exactly N times, the pool is STARTED
\* and it reports exactly N AVAILABLE resources, through getNumAvailable()
\* and through getNumConnectionsInState(AVAILABLE).
C15_StartCreatesMinSize ==
  [][(/\ startPc = "ending"
      /\ startPc' = "done"
      /\ options.minSize <= options.maxSize)
     => /\ createCalls' = options.minSize
        /\ status' = STARTED
        /\ getSize(availableResources') = options.minSize
        /\ count(allResources', {r \in Res : rstatus'[r] = "AVAILABLE"})
             = options.minSize
    ]_vars

\* the code's scheduling with a factory that answers: besides the callbacks
\* of FairSpec, every awaited creation settles and every awaited
\* continuation of start(), checkMinSize() and release() runs
FairFactorySpec ==
  /\ FairSpec
  /\ WF_vars(StartFinish)
  /\ \A k \in {"start", "bg", "once"} : WF_vars(\E ok \in BOOLEAN : CreateDone(k, ok))
  /\ \A k \in {"start", "bg"} : WF_vars(CheckMinSizeLoop(k))
  /\ \A r \in Res :
       WF_vars(\E o \in {"valid", "invalid", "failed"} : ReleaseValidated(r, o))

\* C16: start() terminates: called on a NOT_STARTED pool, whatever minSize
\* and maxSize are, it eventually moves the pool to STARTED, unless a
\* creation fails.
C16_StartTerminates ==
  (status = STARTING) ~> (status = STARTED \/ startPc = "failed")

\* C17: the pool status only moves forward along NOT_STARTED, STARTING,
\* STARTED, STOPPING, STOPPED, one step per transition (stop() makes the two
\* steps STARTED -> STOPPING -> STOPPED in one run); in every state a request
\* for any other transition fails and leaves the status as it is; a start()
\* or stop() call that fails changes nothing, and start() on a pool that is
\* not NOT_STARTED fails with PoolAlreadyStarted and creates nothing.
C17_StatusMovesForward ==
  /\ [](\A n \in NOT_STARTED..STOPPED :
          LET q == switchStatus(Cur, n)
          IN IF n = status + 1
             THEN q.thrown = "" /\ q.status = n
             ELSE q.thrown = "InvalidStateTransition" /\ q.status = status)
  /\ [](status # NOT_STARTED
          => start(Cur) = [Cur EXCEPT !.thrown = "PoolAlreadyStarted"])
  /\ [][/\ status' # status
           => \/ status' = status + 1
              \/ status = STARTED /\ status' = STOPPED
        /\ lastError' \in {"PoolAlreadyStarted", "InvalidStateTransition"}
           => UNCHANGED <<options, status, allResources, availableResources,
                          unfulfilledRequests, created, createCalls, rstatus,
                          listeners, destroyCalls, acq, ticks, startPc,
                          bgCreating, bgLoop, onceCreating, relValidating,
                          holders, handed, misuse, bufferFull>>
        /\ lastError' = "PoolAlreadyStarted" => status # NOT_STARTED
       ]_vars

\* start() has been called on a STARTED pool that holds resources
C17_Witness ==
  /\ lastError = "PoolAlreadyStarted"
  /\ status = STARTED
  /\ createCalls > 0

\* C18: the pending-request queue never holds more than maxWaitingClients
\* requests, and an acquire() that finds the available buffer empty while the
\* queue holds maxWaitingClients requests fails at once with
\* MaxWaitingClientsReached: nothing is enqueued and it starts no creation
\* (when it comes from a validation that answered false, the destroyed
\* resource's min-size replenishment is the only creation that may start).
C18_MaxWaitingClients ==
  /\ [](Len(unfulfilledRequests) <= options.maxWaitingClients)
  /\ [][\A i \in Acq :
          /\ (/\ acq[i].pc = "idle" /\ acq'[i].pc # "idle"
              /\ status = STARTED
              /\ isEmpty(availableResources)
              /\ Len(unfulfilledRequests) = options.maxWaitingClients)
             => /\ acq'[i] = [NoCall EXCEPT !.pc = "rejected",
                                            !.err = "MaxWaitingClientsReached"]
                /\ \A j \in Acq \ {i} : acq'[j] = acq[j]
                /\ UNCHANGED <<status, allResources, availableResources,
                               unfulfilledRequests, created, createCalls,
                               rstatus, ticks, bgCreating, bgLoop, onceCreating>>
          /\ (/\ acq[i].pc = "validating" /\ acq'[i].pc # "validating"
              /\ rstatus[acq[i].res] = "LENT"
              /\ rstatus'[acq[i].res] = "DESTROYED"
              /\ isEmpty(availableResources)
              /\ Len(unfulfilledRequests) = options.maxWaitingClients)
             => /\ rejectedWith(i, "MaxWaitingClientsReached")'
                /\ acq'[i].res = 0
                /\ UNCHANGED <<unfulfilledRequests, onceCreating, availableResources>>
                /\ createCalls' - createCalls = bgCreating' - bgCreating
       ]_vars

\* the queue is at its maximum, one call was turned away at once and one
\* after its validation answered false
C18_Witness ==
  /\ Len(unfulfilledRequests) = options.maxWaitingClients
  /\ \E i, j \in Acq :
       /\ i # j
       /\ rejectedWith(i, "MaxWaitingClientsReached")
       /\ rejectedWith(j, "MaxWaitingClientsReached")
       /\ \E r \in Res : rstatus[r] = "DESTROYED" /\ r \notin handed
                         /\ status = STARTED

\* C19: an acquire() that finds no available resource on a STARTED pool whose
\* size is below maxSize starts one creation in the background and waits; when
\* a creation started that way completes while a request is pending, the pool
\* size has grown by one and the new resource is LENT, on its way to a
\* pending request, so the acquire is served without waiting for a release.
C19_AcquireGrowsPool ==
  [][/\ \A i \in Acq :
          (/\ acq[i].pc = "idle" /\ acq'[i].pc # "idle"
           /\ status = STARTED
           /\ isEmpty(availableResources)
           /\ getSize(allResources) < options.maxSize
           /\ Len(unfulfilledRequests) < options.maxWaitingClients)
          => /\ acq'[i].pc = "waiting"
             /\ createCalls' = createCalls + 1
             /\ onceCreating' = onceCreating + 1
     /\ (/\ onceCreating' = onceCreating - 1
         /\ created' = created + 1
         /\ status = STARTED
         /\ unsettled # {})
        => /\ getSize(allResources') = getSize(allResources) + 1
           /\ created' \in stored(allResources')
           /\ rstatus'[created'] = "LENT"
           /\ \E i \in unsettled :
                ticks' = Append(ticks, [kind |-> "resolve", req |-> i,
                                        res |-> created'])
    ]_vars

\* C20: in a STARTED pool, destroying a resource (one that failed
\* test-on-borrow or test-on-release validation) removes it from the
\* all-resources buffer, also when the pool was at maxSize, and if the pool
\* size then is below minSize a replenishing creation is started or awaited.
C20_DestroyRemovesAndReplenishes ==
  [][\A r \in Res :
       (/\ destroyCalls'[r] = destroyCalls[r] + 1
        /\ status = STARTED /\ status' = STARTED
        /\ r \in stored(allResources))
       => /\ rstatus'[r] = "DESTROYED"
          /\ r \notin stored(allResources')
          /\ getSize(allResources') = getSize(allResources) - 1
          /\ getSize(allResources') < options.minSize
               => bgCreating' + bgLoop' > 0
    ]_vars

\* C21: a failure of the factory's validate is contained: no acquire() call
\* ends rejected with the validation's error, no release() call ends with it,
\* and the resource that was being validated does not stay LENT.
C21_ValidateFailureContained ==
  [][/\ \A i \in Acq :
          acq[i].pc = "validating"
          => /\ ~(acq'[i].pc = "rejected" /\ acq'[i].err = "ValidateFailed")
             /\ acq'[i].pc = "rejected" => rstatus'[acq[i].res] # "LENT"
     /\ \A r \in Res :
          relValidating'[r] = relValidating[r] - 1
          => /\ lastError' # "ValidateFailed"
             /\ rstatus'[r] = "LENT" => r \in {t.res : t \in {ticks'[k] : k \in 1..Len(ticks')}}
    ]_vars

\* C22: when the creation an acquire() started in the background fails, no
\* request is rejected or otherwise touched and nobody is given the error: a
\* pending request is rejected only by its timeout or by shutdown; when a
\* creation fails during start(), start() fails with that error (and the
\* pool stays STARTING).
C22_CreateFailurePropagation ==
  [][/\ (onceCreating' = onceCreating - 1 /\ created' = created)
        => /\ acq' = acq
           /\ unfulfilledRequests' = unfulfilledRequests
           /\ lastError' = ""
     /\ \A i \in Acq :
          (acq[i].pc = "waiting" /\ acq'[i].pc = "rejected")
          => acq'[i].err \in {"AcquireTimeout", "PoolShuttingDown"}
     /\ (startPc = "creating" /\ startPc' # "creating" /\ created' = created)
        => /\ startPc' = "failed"
           /\ lastError' = "CreateFailed"
           /\ status' = STARTING
    ]_vars

\* the only creation made was started by an acquire() and has failed; the
\* request is still pending
C22_Witness ==
  /\ status = STARTED
  /\ createCalls = 1 /\ created = 0
  /\ onceCreating = 0 /\ bgCreating = 0
  /\ acq[1].pc = "waiting"
  /\ unfulfilledRequests = <<1>>

\* start() has failed with the error of its creation
C22_StartFailed ==
  /\ startPc = "failed"
  /\ lastError = "CreateFailed"
  /\ status = STARTING

\* the place in the pending queue of its latest unsettled request, 0 if none
lastUnsettled ==
  LET ks == {k \in 1..Len(unfulfilledRequests) :
               ~acq[unfulfilledRequests[k]].resolved}
  IN IF ks = {} THEN 0 ELSE CHOOSE k \in ks : \A j \in ks : j <= k

\* C23: pending requests are served in LIFO order: when a resource is
\* dispatched while several unsettled requests are queued, the request
\* enqueued most recently receives it, and the earlier ones stay queued and
\* waiting.
C23_PendingServedLifo ==
  [][(/\ Len(ticks') = Len(ticks) + 1
      /\ ticks'[Len(ticks')].kind = "resolve"
      /\ Cardinality(unsettled) >= 2)
     => LET i == ticks'[Len(ticks')].req
            k == lastUnsettled
        IN /\ unfulfilledRequests[k] = i
           /\ unfulfilledRequests' = SubSeq(unfulfilledRequests, 1, k - 1)
           /\ \A j \in unsettled \ {i} :
                /\ acq'[j].pc = "waiting"
                /\ \E m \in 1..Len(unfulfilledRequests') : unfulfilledRequests'[m] = j
    ]_vars

\* the second of two queued requests was served, the first still waits
C23_Witness ==
  /\ status = STARTED
  /\ unfulfilledRequests = <<1>>
  /\ acq[1].pc = "waiting"
  /\ resolvedBy(2)
  /\ acq[3].pc = "idle"
  /\ created = 1

\* C24: stop() is idempotent: called on a pool that is STOPPED it completes
\* without an error and leaves the status, the buffers and the pending queue
\* as they are.
C24_StopIdempotent ==
  [][status = STOPPED
     => /\ lastError' # "InvalidStateTransition"
        /\ status' = STOPPED]_vars

\* C25: a stop() asked for while start() is still populating the pool
\* (status STARTING) does not fail, and after it the start-up loop creates no
\* further resource.
C25_StopDuringStart ==
  [][/\ status = STARTING => lastError' # "InvalidStateTransition"
     /\ (status = STARTING /\ lastError = "InvalidStateTransition")
        => createCalls' = createCalls /\ status' # STARTED
    ]_vars

\* C26: in every reachable state, the pool at maxSize included, the entries
\* of getStatusCounts() sum to getPoolSize(), getNumConnectionsInState(s) is
\* the number of tracked resources whose status is s, and
\* getNumConnectionsInState(AVAILABLE) equals getNumAvailable().
C26_AccessorsAgree ==
  LET counts == getStatusCounts(Cur)
  IN /\ counts["NEW"] + counts["FAST_DISPATCH"] + counts["AVAILABLE"]
          + counts["LENT"] + counts["DESTROYED"] = getPoolSize(Cur)
     /\ \A s \in ResourceStatus \ {"NONE"} :
          getNumConnectionsInState(Cur, s)
            = Cardinality({r \in stored(allResources) : rstatus[r] = s})
     /\ getNumConnectionsInState(Cur, "AVAILABLE") = getNumAvailable(Cur)

\* the resources whose status is s
inStatus(st, s) == {r \in Res : st[r] = s}

\* C27: with resources available in a STARTED pool, acquire() takes the one
\* at the head of the available buffer and marks it LENT: the AVAILABLE count
\* (and the available buffer's size) is one lower, the LENT count one higher,
\* the resource is no longer in the available buffer, and the call returns
\* it, at once without test-on-borrow and unchanged once validate has
\* answered true with it.
C27_AcquireMarksLent ==
  [][\A i \in Acq :
       /\ (/\ acq[i].pc = "idle" /\ acq'[i].pc # "idle"
           /\ status = STARTED
           /\ ~isEmpty(availableResources))
          => LET r == contents(availableResources)[1]
             IN /\ rstatus[r] = "AVAILABLE"
                /\ rstatus'[r] = "LENT"
                /\ r \notin stored(availableResources')
                /\ getSize(availableResources') = getSize(availableResources) - 1
                /\ Cardinality(inStatus(rstatus', "AVAILABLE"))
                     = Cardinality(inStatus(rstatus, "AVAILABLE")) - 1
                /\ Cardinality(inStatus(rstatus', "LENT"))
                     = Cardinality(inStatus(rstatus, "LENT")) + 1
                /\ acq'[i].res = r
                /\ IF options.testOnBorrow
                   THEN acq'[i].pc = "validating"
                   ELSE acq'[i].pc = "resolved" /\ holders'[r] = holders[r] + 1
       /\ (acq[i].pc = "validating" /\ acq'[i].pc = "resolved")
          => /\ acq'[i].res = acq[i].res
             /\ holders'[acq[i].res] = holders[acq[i].res] + 1
             /\ rstatus' = rstatus
             /\ rstatus[acq[i].res] = "LENT"
             /\ availableResources' = availableResources
    ]_vars

\* a call was given a resource straight from the available buffer after its
\* validation, and another resource is still available
C27_Witness ==
  /\ status = STARTED
  /\ options.testOnBorrow
  /\ \E i \in Acq, r, a \in Res :
       /\ resolvedBy(i) /\ acq[i].res = r /\ acq[i].settles = 0
       /\ rstatus[r] = "LENT" /\ holders[r] = 1
       /\ rstatus[a] = "AVAILABLE" /\ a \in stored(availableResources)

\* C27, as the pool reports it: with resources available in a STARTED pool
\* (test-on-borrow off), after acquire() getNumConnectionsInState(AVAILABLE)
\* and getNumAvailable() are one lower, getNumConnectionsInState(LENT) is one
\* higher and the call has returned the resource, now LENT.
C27_AcquireCountsLent ==
  [][\A i \in Acq :
       (/\ acq[i].pc = "idle" /\ acq'[i].pc # "idle"
        /\ status = STARTED
        /\ ~options.testOnBorrow
        /\ ~isEmpty(availableResources))
       => /\ acq'[i].pc = "resolved"
          /\ rstatus'[acq'[i].res] = "LENT"
          /\ getSize(availableResources') = getSize(availableResources) - 1
          /\ count(allResources', inStatus(rstatus', "AVAILABLE"))
               = count(allResources, inStatus(rstatus, "AVAILABLE")) - 1
          /\ count(allResources', inStatus(rstatus', "LENT"))
               = count(allResources, inStatus(rstatus, "LENT")) + 1
    ]_vars

\* ------------------------------------------- CircularQueue on its own
\* A CircularQueue of any capacity is driven by every sequence of calls, next
\* to a double-ended queue kept as a sequence (reference); the pool is idle.
Elem == 1..MaxElement

\* the first element of sequence sq that is in S, 0 (undefined) if none
firstIn(sq, S) ==
  LET ks == {k \in 1..Len(sq) : sq[k] \in S}
  IN IF ks = {} THEN 0 ELSE sq[CHOOSE k \in ks : \A j \in ks : k <= j]

QueueInit ==
  /\ PoolInit({CHOOSE o \in PoolOptions : TRUE})
  /\ \E c \in 1..MaxCapacity : queue = CircularQueue(c)
  /\ reference = <<>>
  /\ returned = NoReturn
  /\ expected = NoReturn

\* queue.push(e): throws 'Buffer full' on a full queue
QPush(e) ==
  /\ queue' = IF isFull(queue) THEN queue ELSE push(queue, e)
  /\ returned' = [NoReturn EXCEPT !.op = "push", !.arg = {e},
                    !.err = IF isFull(queue) THEN "BufferFull" ELSE ""]
  /\ reference' = IF Len(reference) >= queue.capacity THEN reference
                  ELSE Append(reference, e)
  /\ expected' = [NoReturn EXCEPT !.op = "push", !.arg = {e},
                    !.err = IF Len(reference) >= queue.capacity
                            THEN "BufferFull" ELSE ""]
  /\ UNCHANGED poolVars

\* queue.unshift(e): throws 'Buffer full' on a full queue
QUnshift(e) ==
  /\ queue' = IF isFull(queue) THEN queue ELSE unshift(queue, e)
  /\ returned' = [NoReturn EXCEPT !.op = "unshift", !.arg = {e},
                    !.err = IF isFull(queue) THEN "BufferFull" ELSE ""]
  /\ reference' = IF Len(reference) >= queue.capacity THEN reference
                  ELSE <<e>> \o reference
  /\ expected' = [NoReturn EXCEPT !.op = "unshift", !.arg = {e},
                    !.err = IF Len(reference) >= queue.capacity
                            THEN "BufferFull" ELSE ""]
  /\ UNCHANGED poolVars

\* queue.pop()
QPop ==
  /\ queue' = pop(queue).q
  /\ returned' = [NoReturn EXCEPT !.op = "pop", !.val = pop(queue).e]
  /\ reference' = IF reference = <<>> THEN <<>>
                  ELSE SubSeq(reference, 1, Len(reference) - 1)
  /\ expected' = [NoReturn EXCEPT !.op = "pop",
                    !.val = IF reference = <<>> THEN 0
                            ELSE reference[Len(reference)]]
  /\ UNCHANGED poolVars

\* queue.shift()
QShift ==
  /\ queue' = shift(queue).q
  /\ returned' = [NoReturn EXCEPT !.op = "shift", !.val = shift(queue).e]
  /\ reference' = IF reference = <<>> THEN <<>> ELSE Tail(reference)
  /\ expected' = [NoReturn EXCEPT !.op = "shift",
                    !.val = IF reference = <<>> THEN 0 ELSE Head(reference)]
  /\ UNCHANGED poolVars

\* queue.find(e => S.has(e))
QFind(S) ==
  /\ returned' = [NoReturn EXCEPT !.op = "find", !.arg = S, !.val = find(queue, S)]
  /\ expected' = [NoReturn EXCEPT !.op = "find", !.arg = S,
                    !.val = firstIn(reference, S)]
  /\ UNCHANGED <<queue, reference>>
  /\ UNCHANGED poolVars

\* queue.count(e => S.has(e))
QCount(S) ==
  /\ returned' = [NoReturn EXCEPT !.op = "count", !.arg = S, !.val = count(queue, S)]
  /\ expected' = [NoReturn EXCEPT !.op = "count", !.arg = S,
                    !.val = Cardinality({k \in 1..Len(reference) : reference[k] \in S})]
  /\ UNCHANGED <<queue, reference>>
  /\ UNCHANGED poolVars

\* queue.forEach(e => seen.push(e))
QForEach ==
  /\ returned' = [NoReturn EXCEPT !.op = "forEach", !.seen = forEach(queue),
                    !.val = Len(forEach(queue))]
  /\ expected' = [NoReturn EXCEPT !.op = "forEach", !.seen = reference,
                    !.val = Len(reference)]
  /\ UNCHANGED <<queue, reference>>
  /\ UNCHANGED poolVars

\* queue.fastRemove(e): it may reorder the elements, so the reference is taken
\* anew from the queue afterwards
QFastRemove(e) ==
  /\ queue' = fastRemove(queue, e).q
  /\ returned' = [NoReturn EXCEPT !.op = "fastRemove", !.arg = {e},
                    !.val = IF fastRemove(queue, e).found THEN 1 ELSE 0]
  /\ reference' = contents(queue')
  /\ expected' = [NoReturn EXCEPT !.op = "fastRemove", !.arg = {e},
                    !.val = IF \E k \in 1..Len(reference) : reference[k] = e
                            THEN 1 ELSE 0]
  /\ UNCHANGED poolVars

QueueNext ==
  \/ \E e \in Elem : QPush(e)
  \/ \E e \in Elem : QUnshift(e)
  \/ QPop
  \/ QShift
  \/ \E S \in SUBSET Elem : QFind(S)
  \/ \E S \in SUBSET Elem : QCount(S)
  \/ QForEach
  \/ \E e \in Elem : QFastRemove(e)

QueueSpec == QueueInit /\ [][QueueNext]_vars

\* C28: for every capacity the ring buffer is a bounded double-ended queue
\* under push, unshift, pop and shift: its stored elements are the
\* reference's, an insertion fails with BufferFull exactly when the reference
\* holds capacity elements and then changes nothing, pop and shift return
\* what the reference returns (undefined on an empty buffer, changing
\* nothing), getSize/isEmpty/isFull match the reference's length, and
\* size <= capacity with both indices in [0, capacity).
C28_RingBufferIsDeque ==
  /\ [](/\ contents(queue) = reference
        /\ returned.op \in {"new", "push", "unshift", "pop", "shift"}
             => returned = expected
        /\ getSize(queue) = Len(reference)
        /\ isEmpty(queue) <=> reference = <<>>
        /\ isFull(queue) <=> Len(reference) = queue.capacity
        /\ queue.size <= queue.capacity
        /\ queue.startIdx \in 0..(queue.capacity - 1)
        /\ queue.postEndIdx \in 0..(queue.capacity - 1)
        /\ queue.postEndIdx = (queue.startIdx + queue.size) % queue.capacity)
  /\ [][/\ returned'.err = "BufferFull"
           => queue' = queue /\ Len(reference) = queue.capacity
        /\ (returned'.op \in {"pop", "shift"} /\ isEmpty(queue))
           => queue' = queue /\ returned'.val = 0
       ]_vars

\* the buffer was filled and has wrapped around, a further insertion failed
C28_Witness ==
  /\ queue.capacity = MaxCapacity
  /\ isFull(queue)
  /\ queue.startIdx > 0
  /\ returned.err = "BufferFull"

\* C29: for every capacity and every buffer state (empty, partly filled,
\* wrapped around, completely full) find, count and forEach visit the stored
\* elements once each from head to tail: find gives the first element
\* satisfying the predicate or undefined, count the number of stored elements
\* satisfying it, and forEach calls its function size times, in that order.
C29_TraversalsVisitAll ==
  returned.op \in {"find", "count", "forEach"} => returned = expected

\* the occurrences of x in sequence sq
occurrences(sq, x) == Cardinality({k \in 1..Len(sq) : sq[k] = x})

\* C30: for every capacity and every buffer state, a completely full buffer
\* included, fastRemove(e) of a stored element returns true, decreases the
\* size by one and takes one occurrence of e, and nothing else, out of the
\* stored elements; it acts like shift() when e is at the head and like pop()
\* when e is at the tail (and not before).  fastRemove of an element that is
\* not stored changes nothing.
C30_FastRemoveRemoves ==
  [][returned'.op = "fastRemove"
     => LET e == CHOOSE x \in Elem : returned'.arg = {x}
            before == contents(queue)
            after == contents(queue')
        IN IF occurrences(before, e) = 0
           THEN queue' = queue /\ returned'.val = 0
           ELSE /\ returned'.val = 1
                /\ getSize(queue') = getSize(queue) - 1
                /\ \A x \in Elem :
                     occurrences(after, x)
                       = occurrences(before, x) - (IF x = e THEN 1 ELSE 0)
                /\ before[1] = e => queue' = shift(queue).q
                /\ (before[1] # e /\ before[Len(before)] = e
                    /\ occurrences(before, e) = 1)
                   => queue' = pop(queue).q
    ]_vars

\* ---------------------------------------------------------------- C31
\* the transition graph the pool is meant to follow for a resource handle
TransitionGraph ==
  {<<"NEW", "FAST_DISPATCH">>, <<"FAST_DISPATCH", "AVAILABLE">>,
   <<"FAST_DISPATCH", "LENT">>, <<"AVAILABLE", "LENT">>,
   <<"LENT", "FAST_DISPATCH">>}
    \cup {<<s, "DESTROYED">> : s \in {"NEW", "FAST_DISPATCH", "AVAILABLE", "LENT"}}

\* C31: when callers release each acquired resource at most once, every status
\* change setStatus applies to a handle is an edge of the transition graph; no
\* edge leaves DESTROYED, so a destroyed handle never becomes FAST_DISPATCH,
\* AVAILABLE or LENT again
C31_StatusChangesFollowGraph ==
  /\ moves \subseteq TransitionGraph
  /\ \A m \in moves : m[1] # "DESTROYED"

\* a released resource went through FAST_DISPATCH to a pending request while
\* some handle is destroyed
C31_Witness ==
  /\ <<"LENT", "FAST_DISPATCH">> \in moves
  /\ <<"FAST_DISPATCH", "LENT">> \in moves
  /\ \E r \in Res : rstatus[r] = "DESTROYED"

\* ---------------------------------------------------------------- C32
\* C32: every request stored in the pending queue is unsettled, and an
\* acquire() fails with MaxWaitingClientsReached only when maxWaitingClients
\* callers are still waiting (a request that timed out does not count)
C32_QueueHoldsOnlyWaiting ==
  /\ [](\A k \in 1..Len(unfulfilledRequests) :
          /\ ~acq[unfulfilledRequests[k]].resolved
          /\ acq[unfulfilledRequests[k]].pc = "waiting")
  /\ [][\A i \in Acq :
          (/\ acq[i].pc \in {"idle", "validating"}
           /\ rejectedWith(i, "MaxWaitingClientsReached")')
          => Cardinality({j \in Acq : acq[j].pc = "waiting"})
               >= options.maxWaitingClients]_vars

\* the second part of C32 on its own: the calls turned away with
\* MaxWaitingClientsReached found maxWaitingClients callers waiting
C32_TurnedAwayOnlyWhenFull ==
  [][\A i \in Acq :
       (/\ acq[i].pc \in {"idle", "validating"}
        /\ rejectedWith(i, "MaxWaitingClientsReached")')
       => Cardinality({j \in Acq : acq[j].pc = "waiting"})
            >= options.maxWaitingClients]_vars

\* ---------------------------------------------------------------- C33
\* C33: when callers release each acquired resource at most once, a resource
\* is held by at most one caller at a time: while a caller holds it, it is not
\* in the available buffer, not on its way to a pending request and not being
\* validated for another acquire()
C33_MutualExclusion ==
  \A r \in Res :
    /\ holders[r] <= 1
    /\ holders[r] = 1 =>
         /\ r \notin stored(availableResources)
         /\ \A k \in 1..Len(ticks) :
              ~(ticks[k].kind = "resolve" /\ ticks[k].res = r)
         /\ \A i \in Acq : acq[i].pc = "validating" => acq[i].res # r

\* a resource was given to one caller, released, and is now held by another
\* caller who got it through a pending request
C33_Witness ==
  \E r \in Res : \E i, j \in Acq :
    /\ i # j
    /\ holders[r] = 1
    /\ resolvedBy(i) /\ acq[i].res = r
    /\ resolvedBy(j) /\ acq[j].res = r
    /\ acq[j].resolved

\* ---------------------------------------------------------------- C34
\* C34: for any sequence of public calls, releasing the same resource more
\* than once included, the available buffer holds each resource at most once,
\* only resources whose status is AVAILABLE and only resources tracked in the
\* all-resources buffer; a repeated release() of a resource already returned
\* does not fail with BufferFull
C34_AvailableBufferSound ==
  /\ [](\A r \in Res :
          /\ occurrences(contents(availableResources), r) <= 1
          /\ r \in stored(availableResources)
               => /\ rstatus[r] = "AVAILABLE"
                  /\ r \in stored(allResources))
  /\ [][misuse' > misuse => lastError' # "BufferFull"]_vars

\* the state part of C34 for callers that release each resource once
C34_AvailableBufferSoundOnce ==
  \A r \in Res :
    /\ occurrences(contents(availableResources), r) <= 1
    /\ r \in stored(availableResources)
         => /\ rstatus[r] = "AVAILABLE"
            /\ r \in stored(allResources)

\* ---------------------------------------------------------------- C35
\* C35: no caller waits while a resource sits idle: whenever the pending
\* queue is not empty, the available buffer is empty
C35_NoWaitingWhileIdle ==
  Len(unfulfilledRequests) > 0 => isEmpty(availableResources)

\* a released resource has just gone to a pending request, another request
\* is still queued and nothing is available
C35_Witness ==
  /\ Len(unfulfilledRequests) > 0
  /\ <<"LENT", "FAST_DISPATCH">> \in moves
  /\ <<"FAST_DISPATCH", "LENT">> \in moves
  /\ isEmpty(availableResources)
  /\ getPoolSize(Cur) > 0

\* ---------------------------------------------------------------- C36
\* C36: once the factory's create has failed during start(), the pool status
\* stays STARTING: every later start() fails with PoolAlreadyStarted, every
\* acquire() with InvalidPoolState and every stop() with an invalid state
\* transition, none of them changing anything else, and the resources created
\* before the failure stay tracked and are never destroyed
C36_FailedStartIsFinal ==
  /\ [][(startPc # "failed" /\ startPc' = "failed")
          => /\ startPc = "creating"
             /\ lastError' = "CreateFailed"]_vars
  /\ [](startPc = "failed" =>
          /\ status = STARTING
          /\ start(Cur) = [Cur EXCEPT !.thrown = "PoolAlreadyStarted"]
          /\ stop(Cur) = [Cur EXCEPT !.thrown = "InvalidStateTransition"]
          /\ \A i \in Acq :
               acq[i].pc = "idle"
               => acquire(Cur, i)
                    = [Cur EXCEPT !.acq[i] = [NoCall EXCEPT
                                               !.pc = "rejected",
                                               !.err = "InvalidPoolState"]])
  /\ [][startPc = "failed" =>
          /\ startPc' = "failed"
          /\ status' = STARTING
          /\ UNCHANGED <<allResources, availableResources, rstatus,
                         destroyCalls, created, createCalls>>
          /\ \/ lastError' \in {"PoolAlreadyStarted", "InvalidStateTransition"}
             \/ \E i \in Acq : /\ acq[i].pc = "idle"
                               /\ rejectedWith(i, "InvalidPoolState")']_vars

\* the second creation of start() failed; the resource created before it is
\* tracked and not destroyed, an acquire() was turned away and the latest
\* call, a stop(), has failed
C36_Witness ==
  /\ startPc = "failed"
  /\ status = STARTING
  /\ created = 1 /\ createCalls = 2
  /\ 1 \in stored(allResources) /\ destroyCalls[1] = 0
  /\ rejectedWith(1, "InvalidPoolState")
  /\ lastError = "InvalidStateTransition"

=============================================================================
